---- MODULE Spec2Model ----
(***************************************************************************)
(* Model of app.py, the Supply Chain Insights dashboard.                   *)
(*                                                                         *)
(* One run of the script (a "pass") loads the CSV into df and then walks   *)
(* the six tabs in source order.  The framework re-runs the whole script   *)
(* after a widget interaction; only the selectbox's selection survives.    *)
(*                                                                         *)
(* A cell of a data frame is <<>> when it is absent (NaN / NaT / None) and *)
(* <<v>> when it holds v.  Float measures are modelled by integers, so     *)
(* rounding of float sums is outside the model.  Columns that are only     *)
(* handed to the plotting library are left out.                            *)
(***************************************************************************)
EXTENDS Integers, Sequences, FiniteSets, TLC

VARIABLES csv, df, pc, selectbox, metrics, shipping_mode, filtered,
          sales_by_month, geo_df, top_products, category_perf, argsort, seen

vars == <<csv, df, pc, selectbox, metrics, shipping_mode, filtered,
          sales_by_month, geo_df, top_products, category_perf, argsort, seen>>

----------------------------------------------------------------------------
(* Cells *)

NaN == <<>>

NaT == NaN

Some(v) == <<v>>

Val(x) == x[1]

isna(x) == x = NaN

\* a name of the script's namespace that this pass has not bound yet
Unset == <<>>

Columns ==
  {"Order Id", "Customer Id", "Sales", "Order Profit Per Order", "Shipping Mode",
   "order date (DateOrders)", "Customer Country", "Customer City",
   "Product Name", "Category Name"}

\* head(10)
TopN == 10

----------------------------------------------------------------------------
(* pandas operations used by the script *)

\* df[c]: the column as a sequence of cells
Col(rows, c) == [i \in 1..Len(rows) |-> rows[i][c]]

\* Series.dropna
dropna(s) == SelectSeq(s, LAMBDA x : ~isna(x))

\* Series.sum(): skipna=True, an empty or all-absent series sums to 0
RECURSIVE nansum(_)
nansum(s) ==
  IF s = <<>> THEN 0
  ELSE (IF isna(Head(s)) THEN 0 ELSE Val(Head(s))) + nansum(Tail(s))

\* Series.unique(): distinct values in order of first appearance, NaN included
RECURSIVE unique(_)
unique(s) ==
  IF s = <<>> THEN <<>>
  ELSE LET n == Len(s)
           u == unique(SubSeq(s, 1, n - 1))
       IN IF \E k \in 1..Len(u) : u[k] = s[n] THEN u ELSE Append(u, s[n])

nuniqueKeepNa(s) == Len(unique(s))

\* Series.nunique(): dropna=True
nunique(s) == Len(unique(dropna(s)))

\* Series.mean(): skipna=True; the quotient is kept as the fraction num/den,
\* NaN when no value is present
mean(s) ==
  LET p == dropna(s)
  IN IF Len(p) = 0 THEN NaN ELSE Some([num |-> nansum(p), den |-> Len(p)])

\* elementwise ==: a comparison with an absent value is False (NaN != NaN)
eq(a, b) == ~isna(a) /\ ~isna(b) /\ a = b

\* DataFrame.head(n)
head(s, n) == SubSeq(s, 1, IF n < Len(s) THEN n ELSE Len(s))

----------------------------------------------------------------------------
(* Dates.  The raw field is the text "m/d/y h:mm", modelled as <<m, d, y>>. *)

IsLeap(y) == (y % 4 = 0 /\ y % 100 # 0) \/ y % 400 = 0

DaysInMonth(y, m) ==
  IF m = 2 THEN (IF IsLeap(y) THEN 29 ELSE 28)
  ELSE IF m \in {4, 6, 9, 11} THEN 30 ELSE 31

to_datetime_lenient(cell) ==
  IF isna(cell) \/ Val(cell)[1] \notin 1..12 THEN NaT
  ELSE Some([year |-> Val(cell)[3], month |-> Val(cell)[1], day |-> 1])

\* pd.to_datetime(..., errors='coerce'): a text that is no calendar date
\* becomes NaT
to_datetime(cell) ==
  IF isna(cell) THEN NaT
  ELSE LET m == Val(cell)[1]
           d == Val(cell)[2]
           y == Val(cell)[3]
       IN IF m \in 1..12 /\ d \in 1..DaysInMonth(y, m)
          THEN Some([year |-> y, month |-> m, day |-> d])
          ELSE NaT

\* Series.dt.to_period("M"): the day is discarded, NaT stays NaT
to_period_M(ts) ==
  IF isna(ts) THEN NaT ELSE Some([year |-> Val(ts).year, month |-> Val(ts).month])

\* Series.dt.to_timestamp(): the first day of the period
to_timestamp(p) ==
  IF isna(p) THEN NaT ELSE Some([year |-> Val(p).year, month |-> Val(p).month, day |-> 1])

PeriodOrdMonthOnly(p) == p.month

\* the ordinal that orders monthly periods chronologically
PeriodOrd(p) == p.year * 12 + p.month

----------------------------------------------------------------------------
(* Ordering of the text keys: Python compares strings by code point. *)

StringOrder ==
  <<"Caguas", "Chicago", "Cleats", "EE. UU.", "Fishing",
    "P01", "P02", "P03", "P04", "P05", "P06", "P07", "P08", "P09", "P10",
    "P11", "P12", "Puerto Rico">>

StrOrd(s) == CHOOSE i \in 1..Len(StringOrder) : StringOrder[i] = s

----------------------------------------------------------------------------
(* groupby(...).agg({...: 'sum'}).reset_index() *)

\* the key of a row: its cells in the key fields, in order
KeyOf(r, keyFields) == [k \in 1..Len(keyFields) |-> r[keyFields[k]]]

HasNaKey(r, keyFields) == \E k \in 1..Len(keyFields) : isna(r[keyFields[k]])

\* the ordinal of a key value: by its dtype, a monthly period or a text
Ordinal(dtype, v) == IF dtype = "period[M]" THEN PeriodOrd(v) ELSE StrOrd(v)

\* lexicographic comparison of two keys by the ordinals of their cells
KeyLess(a, b, dtype) ==
  \E i \in 1..Len(a) :
     /\ \A j \in 1..(i - 1) : a[j] = b[j]
     /\ Ordinal(dtype, Val(a[i])) < Ordinal(dtype, Val(b[i]))

\* the keys of a set in increasing order (groupby's sort=True)
SortedKeys(S, dtype) ==
  [i \in 1..Cardinality(S) |->
     CHOOSE x \in S : Cardinality({y \in S : KeyLess(y, x, dtype)}) = i - 1]

\* one result row: the key cells and, per summed field, the sum over members
GroupRow(key, members, keyFields, sumFields) ==
  [c \in {keyFields[k] : k \in 1..Len(keyFields)} \cup sumFields |->
     IF c \in sumFields THEN Some(nansum(Col(members, c)))
     ELSE key[CHOOSE k \in 1..Len(keyFields) : keyFields[k] = c]]

\* groupby defaults: dropna=True drops every row with an absent key cell,
\* sort=True orders the groups by key; 'sum' skips absent values
GroupAgg(rows, keyFields, sumFields, dtype) ==
  LET keys == {KeyOf(rows[i], keyFields) :
                 i \in {i \in 1..Len(rows) : ~HasNaKey(rows[i], keyFields)}}
      sorted == SortedKeys(keys, dtype)
  IN [g \in 1..Len(sorted) |->
        GroupRow(sorted[g],
                 SelectSeq(rows, LAMBDA r : KeyOf(r, keyFields) = sorted[g]),
                 keyFields, sumFields)]

groupby_sum_keepna(rows, keyFields, sumFields) ==
  LET missing == SelectSeq(rows, LAMBDA r : HasNaKey(r, keyFields))
  IN GroupAgg(rows, keyFields, sumFields, "object")
     \o (IF missing = <<>> THEN <<>>
         ELSE <<GroupRow([k \in 1..Len(keyFields) |-> NaN], missing,
                         keyFields, sumFields)>>)

groupby_sum_nomerge(rows, keyFields, sumFields) ==
  LET kept == SelectSeq(rows, LAMBDA r : ~HasNaKey(r, keyFields))
  IN [g \in 1..Len(kept) |->
        GroupRow(KeyOf(kept[g], keyFields), <<kept[g]>>, keyFields, sumFields)]

\* df.groupby([text columns]).agg({...: 'sum'}).reset_index()
groupby_sum(rows, keyFields, sumFields) ==
  GroupAgg(rows, keyFields, sumFields, "object")

\* df.groupby(df['order_date'].dt.to_period("M")).agg({...}).reset_index(),
\* then order_date back to a timestamp
groupby_month_sum(rows, sumFields) ==
  LET keyed == [i \in 1..Len(rows) |->
                  [rows[i] EXCEPT !["order_date"] = to_period_M(@)]]
      g == GroupAgg(keyed, <<"order_date">>, sumFields, "period[M]")
  IN [i \in 1..Len(g) |-> [g[i] EXCEPT !["order_date"] = to_timestamp(@)]]

----------------------------------------------------------------------------
(* sort_values(by, ascending=False) with the default kind='quicksort'.     *)
(* The sort is not stable: which of the orders of rows with equal values   *)
(* comes out depends on the NumPy build.  Every descending order is a      *)
(* possible outcome.                                                       *)

RECURSIVE AscOrders(_, _, _)
AscOrders(rows, I, by) ==
  IF I = {} THEN {<<>>}
  ELSE UNION {{<<rows[i]>> \o t : t \in AscOrders(rows, I \ {i}, by)} :
                i \in {i \in I : \A j \in I : Val(rows[i][by]) <= Val(rows[j][by])}}

RECURSIVE DescOrders(_, _, _)
DescOrders(rows, I, by) ==
  IF I = {} THEN {<<>>}
  ELSE UNION {{<<rows[i]>> \o t : t \in DescOrders(rows, I \ {i}, by)} :
                i \in {i \in I : \A j \in I : Val(rows[j][by]) <= Val(rows[i][by])}}

sort_values_asc(rows, by) == AscOrders(rows, 1..Len(rows), by)

\* the set of outcomes of rows.sort_values(by, ascending=False)
sort_values_desc(rows, by) == DescOrders(rows, 1..Len(rows), by)

topN_ascending(rows, by, n) == {head(t, n) : t \in sort_values_asc(rows, by)}

topN_one_more(rows, by, n) == {head(t, n + 1) : t \in sort_values_desc(rows, by)}

\* .sort_values("Sales", ascending=False).head(n): the possible outcomes
topN(rows, by, n) == {head(t, n) : t \in sort_values_desc(rows, by)}

----------------------------------------------------------------------------
(* Data frames *)

Frame(columns, rows) == [columns |-> columns, rows |-> rows]

NoFrame == Frame({}, <<>>)

\* pd.read_csv: an empty field is read as NaN
read_csv(text) == Frame(Columns, text)

\* df[col] = series
assign(frame, col, series) ==
  Frame(frame.columns \cup {col},
        [i \in 1..Len(frame.rows) |-> (col :> series[i]) @@ frame.rows[i]])

\* df[df[col] == value]: a new frame, the rows in their order
select_eq(frame, col, value) ==
  Frame(frame.columns, SelectSeq(frame.rows, LAMBDA r : eq(r[col], value)))

----------------------------------------------------------------------------
(* Input files *)

\* longest file of the small families
MaxRows == 3

\* rows appended to the twelve-product file
MaxExtra == 3

SeqsUpTo(S, n) == UNION {[1..k -> S] : k \in 0..n}

Row(oid, cid, sales, profit, mode, date, country, city, product, category) ==
  [c \in Columns |->
     CASE c = "Order Id" -> oid
       [] c = "Customer Id" -> cid
       [] c = "Sales" -> sales
       [] c = "Order Profit Per Order" -> profit
       [] c = "Shipping Mode" -> mode
       [] c = "order date (DateOrders)" -> date
       [] c = "Customer Country" -> country
       [] c = "Customer City" -> city
       [] c = "Product Name" -> product
       [] c = "Category Name" -> category]

Jan31 == Some(<<1, 31, 2018>>)

\* identifiers and profit vary (Overview)
SnapshotRecords ==
  {Row(o, c, Some(2), p, Some("Same Day"), Jan31, Some("EE. UU."),
       Some("Caguas"), Some("P01"), Some("Cleats")) :
     o \in {NaN, Some(1), Some(2)}, c \in {NaN, Some(7)},
     p \in {NaN, Some(3)}}

\* shipping mode varies (Shipping & Delivery)
ShippingRecords ==
  {Row(o, Some(7), Some(2), Some(3), m, Jan31, Some("EE. UU."),
       Some("Caguas"), Some("P01"), Some("Cleats")) :
     o \in {Some(1), Some(2)},
     m \in {NaN, Some("First Class"), Some("Same Day")}}

\* order date varies: two years, an impossible day, a text that is no date
\* at all (<<0, 0, y>>), an empty field (Sales & Profit)
MonthlyRecords ==
  {Row(Some(1), Some(7), s, Some(3), Some("Same Day"), d, Some("EE. UU."),
       Some("Caguas"), Some("P01"), Some("Cleats")) :
     s \in {NaN, Some(2)},
     d \in {NaN, Some(<<12, 15, 2017>>), Jan31, Some(<<1, 2, 2018>>),
            Some(<<2, 31, 2018>>), Some(<<0, 0, 2018>>)}}

\* the grouping keys vary (Geographic View, Product Analysis)
GroupRecords ==
  {Row(Some(1), Some(7), s, Some(3), Some("Same Day"), Jan31, k[1], k[2],
       k[3], k[4]) :
     s \in {NaN, Some(2)},
     k \in {<<Some("EE. UU."), Some("Caguas"), Some("P01"), Some("Cleats")>>,
            <<Some("Puerto Rico"), Some("Caguas"), Some("P02"), Some("Fishing")>>,
            <<Some("EE. UU."), Some("Chicago"), NaN, Some("Cleats")>>,
            <<NaN, Some("Caguas"), Some("P01"), NaN>>,
            <<Some("EE. UU."), NaN, Some("P02"), Some("Fishing")>>}}

Catalog ==
  <<"P01", "P02", "P03", "P04", "P05", "P06", "P07", "P08", "P09", "P10",
    "P11", "P12">>

ProductRow(product, sales) ==
  Row(Some(1), Some(7), sales, Some(3), Some("Same Day"), Jan31,
      Some("EE. UU."), Some("Caguas"), product, Some("Cleats"))

\* one row per catalog product, the later the name the larger its Sales
CatalogFile == [i \in 1..Len(Catalog) |-> ProductRow(Some(Catalog[i]), Some(i))]

\* further sales of the three weakest products, or of no named product
ExtraRecords ==
  {ProductRow(p, Some(1)) : p \in {NaN, Some("P01"), Some("P02"), Some("P03")}}

ProductFiles == {CatalogFile \o x : x \in SeqsUpTo(ExtraRecords, MaxExtra)}

----------------------------------------------------------------------------
(* The session *)

Start(files) ==
  /\ csv \in files
  /\ df = NoFrame
  /\ pc = "load"
  /\ selectbox = 1
  /\ metrics = Unset
  /\ shipping_mode = Unset
  /\ filtered = NoFrame
  /\ sales_by_month = Unset
  /\ geo_df = Unset
  /\ top_products = Unset
  /\ category_perf = Unset
  /\ argsort = {}
  /\ seen = {}

\* what a finished pass hands to the page
Rendered ==
  [metrics |-> metrics, shipping_mode |-> shipping_mode, filtered |-> filtered,
   sales_by_month |-> sales_by_month, geo_df |-> geo_df,
   top_products |-> top_products, category_perf |-> category_perf]

LoadFromView ==
  /\ pc = "load"
  /\ df' = IF filtered = NoFrame THEN read_csv(csv) ELSE filtered
  /\ metrics' = Unset
  /\ shipping_mode' = Unset
  /\ filtered' = NoFrame
  /\ sales_by_month' = Unset
  /\ geo_df' = Unset
  /\ top_products' = Unset
  /\ category_perf' = Unset
  /\ pc' = "overview"
  /\ UNCHANGED <<csv, selectbox, argsort, seen>>

\* line 6: every run of the script reads the file again; the names bound by
\* an earlier run are gone
Load ==
  /\ pc = "load"
  /\ df' = read_csv(csv)
  /\ metrics' = Unset
  /\ shipping_mode' = Unset
  /\ filtered' = NoFrame
  /\ sales_by_month' = Unset
  /\ geo_df' = Unset
  /\ top_products' = Unset
  /\ category_perf' = Unset
  /\ pc' = "overview"
  /\ UNCHANGED <<csv, selectbox, argsort, seen>>

\* lines 22-25
Overview ==
  /\ pc = "overview"
  /\ metrics' = [orders |-> nunique(Col(df.rows, "Order Id")),
                 customers |-> nunique(Col(df.rows, "Customer Id")),
                 sales |-> nansum(Col(df.rows, "Sales")),
                 avg_profit |-> mean(Col(df.rows, "Order Profit Per Order"))]
  /\ pc' = "shipping"
  /\ UNCHANGED <<csv, df, selectbox, shipping_mode, filtered, sales_by_month,
                 geo_df, top_products, category_perf, argsort, seen>>

\* the options of the selectbox, line 43
Options == unique(Col(df.rows, "Shipping Mode"))

\* what the selectbox returns: the option the session holds, the first one
\* until the user picks another (and when the options no longer hold the
\* session's), None when there is no option
Selected ==
  IF Options = <<>> THEN NaN
  ELSE IF selectbox \in 1..Len(Options) THEN Options[selectbox] ELSE Options[1]

ShippingInPlace ==
  /\ pc = "shipping"
  /\ LET mode == Selected
     IN /\ shipping_mode' = mode
        /\ filtered' = select_eq(df, "Shipping Mode", mode)
        /\ df' = select_eq(df, "Shipping Mode", mode)
  /\ pc' = "sales"
  /\ UNCHANGED <<csv, selectbox, metrics, sales_by_month, geo_df,
                 top_products, category_perf, argsort, seen>>

\* lines 43-44
Shipping ==
  /\ pc = "shipping"
  /\ LET mode == Selected
     IN /\ shipping_mode' = mode
        /\ filtered' = select_eq(df, "Shipping Mode", mode)
  /\ pc' = "sales"
  /\ UNCHANGED <<csv, df, selectbox, metrics, sales_by_month, geo_df,
                 top_products, category_perf, argsort, seen>>

\* lines 65-67
SalesProfit ==
  /\ pc = "sales"
  /\ LET dates == [i \in 1..Len(df.rows) |->
                     to_datetime(df.rows[i]["order date (DateOrders)"])]
         frame == assign(df, "order_date", dates)
     IN /\ df' = frame
        /\ sales_by_month' =
             groupby_month_sum(frame.rows, {"Sales", "Order Profit Per Order"})
  /\ pc' = "geo"
  /\ UNCHANGED <<csv, selectbox, metrics, shipping_mode, filtered, geo_df,
                 top_products, category_perf, argsort, seen>>

\* line 80
Geographic ==
  /\ pc = "geo"
  /\ geo_df' = groupby_sum(df.rows, <<"Customer Country", "Customer City">>,
                           {"Sales", "Order Profit Per Order"})
  /\ pc' = "product"
  /\ UNCHANGED <<csv, df, selectbox, metrics, shipping_mode, filtered,
                 sales_by_month, top_products, category_perf, argsort, seen>>

\* df.groupby("Product Name").agg({'Sales':'sum'}), line 103
product_sales == groupby_sum(df.rows, <<"Product Name">>, {"Sales"})

\* lines 103-106.  argsort records what this build's sort returned for an
\* input: the same build orders the same input the same way again.
Product ==
  /\ pc = "product"
  /\ \E t \in topN(product_sales, "Sales", TopN) :
        /\ \A m \in argsort : m[1] = product_sales => m[2] = t
        /\ top_products' = t
        /\ argsort' = argsort \cup {<<product_sales, t>>}
  /\ category_perf' = groupby_sum(df.rows, <<"Category Name">>,
                                  {"Sales", "Order Profit Per Order"})
  /\ pc' = "done"
  /\ UNCHANGED <<csv, df, selectbox, metrics, shipping_mode, filtered,
                 sales_by_month, geo_df>>
  /\ seen' = IF \E e \in seen : e[1] = selectbox THEN seen
             ELSE seen \cup {<<selectbox, Rendered'>>}

\* the user picks the i-th option of the selectbox and the script runs again;
\* picking the current option stands for any other trigger of a rerun
Select(i) ==
  /\ pc = "done"
  /\ i \in 1..Len(Options)
  /\ selectbox' = i
  /\ pc' = "load"
  /\ UNCHANGED <<csv, df, metrics, shipping_mode, filtered, sales_by_month,
                 geo_df, top_products, category_perf, argsort, seen>>

Next ==
  \/ Load
  \/ Overview
  \/ Shipping
  \/ SalesProfit
  \/ Geographic
  \/ Product
  \/ \E i \in 1..MaxRows : Select(i)

SpecSnapshot == Start(SeqsUpTo(SnapshotRecords, MaxRows)) /\ [][Next]_vars

SpecShipping == Start(SeqsUpTo(ShippingRecords, MaxRows)) /\ [][Next]_vars

SpecMonthly == Start(SeqsUpTo(MonthlyRecords, MaxRows)) /\ [][Next]_vars

SpecGroup == Start(SeqsUpTo(GroupRecords, MaxRows)) /\ [][Next]_vars

SpecProduct == Start(ProductFiles) /\ [][Next]_vars

SpecSession ==
  Start(SeqsUpTo(ShippingRecords, MaxRows) \cup ProductFiles) /\ [][Next]_vars

----------------------------------------------------------------------------
(* Grouped aggregations: C1, C2 *)

GeoKeys == <<"Customer Country", "Customer City">>

\* a record belongs to a result row when their key cells agree; an absent
\* cell agrees with the key of a "missing" row
InGroup(r, g, keyFields) ==
  \A k \in 1..Len(keyFields) : r[keyFields[k]] = g[keyFields[k]]

GroupsOf(r, res, keyFields) == {j \in 1..Len(res) : InGroup(r, res[j], keyFields)}

MembersOf(g, rows, keyFields) == SelectSeq(rows, LAMBDA r : InGroup(r, g, keyFields))

KeysUnique(res, keyFields) ==
  \A i, j \in 1..Len(res) : InGroup(res[i], res[j], keyFields) => i = j

RowSumsRight(rows, res, keyFields, sumFields) ==
  \A j \in 1..Len(res) :
     /\ MembersOf(res[j], rows, keyFields) # <<>>
     /\ \A c \in sumFields :
          res[j][c] = Some(nansum(Col(MembersOf(res[j], rows, keyFields), c)))

PartitionsAll(rows, res, keyFields, sumFields) ==
  /\ \A i \in 1..Len(rows) : Cardinality(GroupsOf(rows[i], res, keyFields)) = 1
  /\ KeysUnique(res, keyFields)
  /\ RowSumsRight(rows, res, keyFields, sumFields)

PartitionsKeyed(rows, res, keyFields, sumFields) ==
  /\ \A i \in 1..Len(rows) :
       Cardinality(GroupsOf(rows[i], res, keyFields)) =
         IF HasNaKey(rows[i], keyFields) THEN 0 ELSE 1
  /\ KeysUnique(res, keyFields)
  /\ RowSumsRight(rows, res, keyFields, sumFields)

\* C1 as stated: the groups of every grouped aggregation partition all the
\* records of the dataset: each record is in exactly one result row, each key
\* combination is in at most one row.
C1_PartitionsEveryRecord ==
  pc = "done" =>
    /\ PartitionsAll(df.rows, geo_df, GeoKeys, {"Sales", "Order Profit Per Order"})
    /\ PartitionsAll(df.rows, product_sales, <<"Product Name">>, {"Sales"})
    /\ PartitionsAll(df.rows, category_perf, <<"Category Name">>,
                     {"Sales", "Order Profit Per Order"})

\* C1 amended: the groups partition the records whose key fields are all
\* present: each such record is in exactly one result row, a record with an
\* absent key field is in none, each key combination is in at most one row,
\* and a row's sums are the sums over its records.
C1_PartitionsKeyedRecords ==
  pc = "done" =>
    /\ PartitionsKeyed(df.rows, geo_df, GeoKeys, {"Sales", "Order Profit Per Order"})
    /\ PartitionsKeyed(df.rows, product_sales, <<"Product Name">>, {"Sales"})
    /\ PartitionsKeyed(df.rows, category_perf, <<"Category Name">>,
                       {"Sales", "Order Profit Per Order"})

\* two records share a key, a third has an absent country
C1_Witness ==
  /\ pc = "done"
  /\ Len(geo_df) >= 1
  /\ \E i, j \in 1..Len(df.rows) :
       /\ i # j
       /\ ~HasNaKey(df.rows[i], GeoKeys)
       /\ KeyOf(df.rows[i], GeoKeys) = KeyOf(df.rows[j], GeoKeys)
  /\ \E i \in 1..Len(df.rows) : isna(df.rows[i]["Customer Country"])

Keyed(rows, keyFields) == SelectSeq(rows, LAMBDA r : ~HasNaKey(r, keyFields))

\* C2 as stated: a record with an absent key field is counted in a "missing"
\* row of the result, and the result's total of a summed field is the total
\* over all records (the files here have at most n products, so the top
\* products are all the product groups).
C2_MissingBucket ==
  pc = "done" =>
    /\ (\E i \in 1..Len(df.rows) : HasNaKey(df.rows[i], GeoKeys))
         => \E j \in 1..Len(geo_df) : HasNaKey(geo_df[j], GeoKeys)
    /\ (\E i \in 1..Len(df.rows) : isna(df.rows[i]["Category Name"]))
         => \E j \in 1..Len(category_perf) : isna(category_perf[j]["Category Name"])
    /\ (\E i \in 1..Len(df.rows) : isna(df.rows[i]["Product Name"]))
         => \E j \in 1..Len(top_products) : isna(top_products[j]["Product Name"])
    /\ nansum(Col(top_products, "Sales")) = nansum(Col(df.rows, "Sales"))
    /\ \A c \in {"Sales", "Order Profit Per Order"} :
         /\ nansum(Col(geo_df, c)) = nansum(Col(df.rows, c))
         /\ nansum(Col(category_perf, c)) = nansum(Col(df.rows, c))

\* C2 amended: a record with an absent key field is dropped from the grouped
\* result: no result row has an absent key, and the result's total of a summed
\* field is the total over the records whose key fields are all present.
C2_MissingDropped ==
  pc = "done" =>
    /\ \A j \in 1..Len(geo_df) : ~HasNaKey(geo_df[j], GeoKeys)
    /\ \A j \in 1..Len(category_perf) : ~isna(category_perf[j]["Category Name"])
    /\ \A j \in 1..Len(top_products) : ~isna(top_products[j]["Product Name"])
    /\ Len(product_sales) <= TopN =>
         nansum(Col(top_products, "Sales")) =
           nansum(Col(Keyed(df.rows, <<"Product Name">>), "Sales"))
    /\ \A c \in {"Sales", "Order Profit Per Order"} :
         /\ nansum(Col(geo_df, c)) = nansum(Col(Keyed(df.rows, GeoKeys), c))
         /\ nansum(Col(category_perf, c)) =
              nansum(Col(Keyed(df.rows, <<"Category Name">>), c))

\* a record with an absent city and a present Sales beside a keyed record
C2_Witness ==
  /\ pc = "done"
  /\ \E i \in 1..Len(df.rows) :
       /\ isna(df.rows[i]["Customer City"])
       /\ ~isna(df.rows[i]["Sales"])
  /\ \E i \in 1..Len(df.rows) :
       /\ ~HasNaKey(df.rows[i], GeoKeys)
       /\ ~isna(df.rows[i]["Sales"])
  /\ nansum(Col(geo_df, "Sales")) < nansum(Col(df.rows, "Sales"))

----------------------------------------------------------------------------
(* Top products: C3, C4 *)

Descending(rows, by) ==
  \A i \in 1..(Len(rows) - 1) : Val(rows[i][by]) >= Val(rows[i + 1][by])

RowSet(rows) == {rows[i] : i \in 1..Len(rows)}

\* C3 as stated: the top products are at most n rows in descending order of
\* Sales, and topN of that result, with the same or a larger n, returns the
\* same sequence of rows.
C3_TopNIdempotent ==
  pc = "done" =>
    /\ Len(top_products) <= TopN
    /\ Descending(top_products, "Sales")
    /\ \A n \in {TopN, TopN + 1} :
         topN(top_products, "Sales", n) = {top_products}

\* C3 amended: at most n rows in descending order of Sales; topN of that
\* result, with the same or a larger n, returns the same rows with the same
\* sequence of Sales values, and the same sequence of rows when no two rows of
\* the result have equal Sales (rows with equal Sales may come out reordered).
C3_TopNIdempotentUpToTies ==
  pc = "done" =>
    /\ Len(top_products) <= TopN
    /\ Descending(top_products, "Sales")
    /\ \A n \in {TopN, TopN + 1} :
         \A t \in topN(top_products, "Sales", n) :
            /\ Col(t, "Sales") = Col(top_products, "Sales")
            /\ RowSet(t) = RowSet(top_products)
            /\ (\A i, j \in 1..Len(top_products) :
                   top_products[i]["Sales"] = top_products[j]["Sales"] => i = j)
                 => t = top_products

\* more than n products, the rows kept hold a tie
C3_Witness ==
  /\ pc = "done"
  /\ Len(product_sales) > TopN
  /\ Len(top_products) = TopN
  /\ \E i \in 1..(TopN - 1) :
       top_products[i]["Sales"] = top_products[i + 1]["Sales"]

NameOrd(g) == StrOrd(Val(g["Product Name"]))

\* g comes before h in a stable descending sort of the grouped rows
StableBefore(g, h) ==
  \/ Val(g["Sales"]) > Val(h["Sales"])
  \/ g["Sales"] = h["Sales"] /\ NameOrd(g) < NameOrd(h)

\* the rows kept are min(n, groups) rows of the grouped result
KeptCount ==
  /\ Len(top_products) = (IF Len(product_sales) < TopN THEN Len(product_sales) ELSE TopN)
  /\ RowSet(top_products) \subseteq RowSet(product_sales)

\* C4 as stated: rows with equal Sales keep their group-key order, so the n
\* rows kept and their order are the first n of the stable descending sort.
C4_StableTies ==
  pc = "done" =>
    /\ KeptCount
    /\ \A i \in 1..(Len(top_products) - 1) :
         StableBefore(top_products[i], top_products[i + 1])
    /\ \A g \in RowSet(product_sales) \ RowSet(top_products) :
         \A i \in 1..Len(top_products) : StableBefore(top_products[i], g)

NotAfter(g, h) == Val(g["Sales"]) >= Val(h["Sales"])

\* C4 amended: the rows kept are min(n, groups) distinct group rows in
\* descending order of Sales and no row left out has larger Sales than a row
\* kept; among rows with equal Sales neither the order nor, when the tie
\* straddles the n-th position, which rows are kept is determined.
C4_DescendingTiesOpen ==
  pc = "done" =>
    /\ KeptCount
    /\ \A i \in 1..(Len(top_products) - 1) :
         NotAfter(top_products[i], top_products[i + 1])
    /\ \A g \in RowSet(product_sales) \ RowSet(top_products) :
         \A i \in 1..Len(top_products) : NotAfter(top_products[i], g)
    /\ \A i, j \in 1..Len(top_products) : top_products[i] = top_products[j] => i = j

\* a tie straddles the n-th position and the row kept there is the one
\* that comes later in key order
C4_Witness ==
  /\ pc = "done"
  /\ Len(top_products) = TopN
  /\ \E g \in RowSet(product_sales) \ RowSet(top_products) :
       /\ g["Sales"] = top_products[TopN]["Sales"]
       /\ NameOrd(g) < NameOrd(top_products[TopN])

----------------------------------------------------------------------------
(* Monthly aggregation: C5, C6 *)

RawDate(r) == r["order date (DateOrders)"]

\* the raw text names a day of the calendar
Parsable(r) ==
  /\ ~isna(RawDate(r))
  /\ Val(RawDate(r))[1] \in 1..12
  /\ Val(RawDate(r))[2] \in 1..DaysInMonth(Val(RawDate(r))[3], Val(RawDate(r))[1])

MonthOf(r) == <<Val(RawDate(r))[3], Val(RawDate(r))[1]>>

InBucket(r, b) ==
  /\ Parsable(r)
  /\ MonthOf(r) = <<Val(b["order_date"]).year, Val(b["order_date"]).month>>

Earlier(a, b) ==
  \/ Val(a).year < Val(b).year
  \/ Val(a).year = Val(b).year /\ Val(a).month < Val(b).month

MonthFields == {"Sales", "Order Profit Per Order"}

\* C5: the month buckets are in strictly increasing chronological order, so no
\* month appears twice, whatever the order of the records; each bucket holds
\* the sums over exactly the records whose order date is in its month.
C5_MonthsChronological ==
  pc \in {"geo", "product", "done"} =>
    /\ \A i \in 1..(Len(sales_by_month) - 1) :
         Earlier(sales_by_month[i]["order_date"], sales_by_month[i + 1]["order_date"])
    /\ \A i \in 1..Len(sales_by_month) : \A c \in MonthFields :
         sales_by_month[i][c] =
           Some(nansum(Col(SelectSeq(csv, LAMBDA r : InBucket(r, sales_by_month[i])), c)))
    /\ \A k \in 1..Len(csv) :
         Parsable(csv[k]) =>
           \E i \in 1..Len(sales_by_month) : InBucket(csv[k], sales_by_month[i])

\* the file has a January 2018 order before a December 2017 order
C5_Witness ==
  /\ pc = "done"
  /\ Len(sales_by_month) >= 2
  /\ \E i, j \in 1..Len(csv) :
       /\ i < j
       /\ Parsable(csv[i]) /\ Parsable(csv[j])
       /\ MonthOf(csv[i]) = <<2018, 1>>
       /\ MonthOf(csv[j]) = <<2017, 12>>
       /\ ~isna(csv[i]["Sales"]) /\ ~isna(csv[j]["Sales"])

\* the date field holds a text that is no date
Unparsable(r) == ~isna(RawDate(r)) /\ ~Parsable(r)

\* C6: a record whose order date cannot be parsed stays in the dataset with an
\* absent date and is still seen by the geographic aggregation, but it is in no
\* month bucket and makes no bucket of its own.
C6_UnparsableDateExcluded ==
  pc = "done" =>
    /\ Len(df.rows) = Len(csv)
    /\ \A k \in 1..Len(csv) :
         /\ \A c \in Columns : df.rows[k][c] = csv[k][c]
         /\ Unparsable(csv[k]) => isna(df.rows[k]["order_date"])
    /\ nansum(Col(geo_df, "Sales")) = nansum(Col(csv, "Sales"))
    /\ \A i \in 1..Len(sales_by_month) : ~isna(sales_by_month[i]["order_date"])
    /\ Len(sales_by_month) =
         Cardinality({MonthOf(csv[k]) : k \in {k \in 1..Len(csv) : Parsable(csv[k])}})
    /\ \A c \in MonthFields :
         nansum(Col(sales_by_month, c)) = nansum(Col(SelectSeq(csv, Parsable), c))

\* an order dated 2/31/2018 with Sales beside an order with a real date
C6_Witness ==
  /\ pc = "done"
  /\ \E k \in 1..Len(csv) : Unparsable(csv[k]) /\ ~isna(csv[k]["Sales"])
  /\ \E k \in 1..Len(csv) : Parsable(csv[k])
  /\ nansum(Col(sales_by_month, "Sales")) < nansum(Col(csv, "Sales"))

----------------------------------------------------------------------------
(* The loaded dataset and the shipping-mode filter: C7, C8 *)

\* C7 as stated: after the load no operation of a pass changes the dataset's
\* records or its set of columns.
C7_DatasetImmutable ==
  pc # "load" => df.columns = Columns /\ df.rows = csv

\* C7 amended: after the load no operation of a pass changes or removes a
\* loaded record or a loaded column, and filtering makes a separate view; the
\* one change to the dataset is the column order_date that the Sales & Profit
\* tab adds to it.
C7_LoadedColumnsImmutable ==
  pc # "load" =>
    /\ Len(df.rows) = Len(csv)
    /\ \A k \in 1..Len(csv) : \A c \in Columns : df.rows[k][c] = csv[k][c]
    /\ df.columns = IF pc \in {"overview", "shipping", "sales"} THEN Columns
                    ELSE Columns \cup {"order_date"}
    /\ \A k \in 1..Len(df.rows) : DOMAIN df.rows[k] = df.columns

\* the pass has filtered some records out and has added order_date
C7_Witness ==
  /\ pc = "done"
  /\ "order_date" \in df.columns
  /\ filtered.rows # <<>>
  /\ Len(filtered.rows) < Len(df.rows)

\* C8: for every value the selector offers, the filtered view is exactly the
\* records whose Shipping Mode is that value, in their order, and filtering
\* the view again by the same value returns the same view.
C8_FilterExact ==
  (pc \in {"sales", "geo", "product", "done"} /\ csv # <<>>) =>
    /\ filtered.rows = SelectSeq(csv, LAMBDA r : r["Shipping Mode"] = shipping_mode)
    /\ select_eq(filtered, "Shipping Mode", shipping_mode) = filtered

----------------------------------------------------------------------------
(* Overview metrics: C9 *)

Distinct(s) == {s[i] : i \in 1..Len(s)}

MeanRight(avg, s) ==
  LET present == {i \in 1..Len(s) : ~isna(s[i])}
  IN IF present = {} THEN isna(avg)
     ELSE /\ ~isna(avg)
          /\ Val(avg).den > 0
          /\ Val(avg).num * Cardinality(present) = nansum(s) * Val(avg).den

\* C9 as stated: the mean profit is over the present values only, while an
\* absent Order Id or Customer Id counts as one distinct value.
C9_AbsentIdCounted ==
  pc \in {"shipping", "sales", "geo", "product", "done"} =>
    /\ MeanRight(metrics.avg_profit, Col(csv, "Order Profit Per Order"))
    /\ metrics.orders = Cardinality(Distinct(Col(csv, "Order Id")))
    /\ metrics.customers = Cardinality(Distinct(Col(csv, "Customer Id")))

\* C9 amended: absent values are excluded from the mean and from the distinct
\* counts alike: the mean profit is over the present values only, and the
\* order and customer counts are the numbers of distinct present identifiers.
C9_AbsentIdNotCounted ==
  pc \in {"shipping", "sales", "geo", "product", "done"} =>
    /\ MeanRight(metrics.avg_profit, Col(csv, "Order Profit Per Order"))
    /\ metrics.orders = Cardinality(Distinct(Col(csv, "Order Id")) \ {NaN})
    /\ metrics.customers = Cardinality(Distinct(Col(csv, "Customer Id")) \ {NaN})

\* absent and present identifiers, absent and present profits
C9_Witness ==
  /\ pc = "done"
  /\ \E i, j \in 1..Len(csv) :
       isna(csv[i]["Order Id"]) /\ ~isna(csv[j]["Order Id"])
  /\ \E i, j \in 1..Len(csv) :
       isna(csv[i]["Order Profit Per Order"]) /\ ~isna(csv[j]["Order Profit Per Order"])
  /\ metrics.orders = 1

----------------------------------------------------------------------------
(* Recomputation: C10 *)

\* C10: what a finished pass has computed depends only on the file and the
\* current selection: it equals what the first pass with that selection
\* computed, whatever was selected in between.
C10_PassDependsOnSelectionOnly ==
  pc = "done" => \A e \in seen : e[1] = selectbox => e[2] = Rendered

\* the first option is selected again after a pass with the second option
\* that showed other records
C10_Witness ==
  /\ pc = "done"
  /\ selectbox = 1
  /\ filtered.rows # <<>>
  /\ \E e \in seen : e[1] = 2 /\ e[2].filtered.rows # <<>>

====
